---- MODULE Spec2Model ----
(***************************************************************************)
(* A model of the NEO loaders (extract.py), the record types (models.py)   *)
(* and the output writers (write.py).                                      *)
(*                                                                         *)
(* Python values are records tagged with their type, so that None, "",     *)
(* 0.0, nan and False stay distinct values and Python's truthiness is a    *)
(* function of the value:                                                  *)
(*    None        [type |-> "NoneType"]                                    *)
(*    str         [type |-> "str",   s |-> <text>]                         *)
(*    float       [type |-> "float", x |-> <value in hundredths>]          *)
(*    float nan   [type |-> "float", nan |-> TRUE]                         *)
(*    bool        [type |-> "bool",  b |-> <BOOLEAN>]                      *)
(*    datetime    [type |-> "datetime", y, mo, d, h, mi]                   *)
(* A call either returns a value or raises: [exc |-> "none", val |-> v]    *)
(* or [exc |-> <exception class>].                                         *)
(***************************************************************************)
EXTENDS Integers, Sequences, FiniteSets, TLC

VARIABLES
    pc,          \* the function being executed: "main" when none is
    neoIn,       \* load_neos: the rows the csv.DictReader has yielded so far
    neos,        \* load_neos: the list `neos`
    neoSrc,      \* history: neoSrc[k] is the index in neoIn of the row of neos[k]
    neoRet,      \* load_neos: "pending", "returned" or the exception it raised
    cadIn,       \* load_approaches: the rows of `reader` iterated so far
    approaches,  \* load_approaches: the list `approaches`
    cadSrc,      \* history: cadSrc[k] is the index in cadIn of the row of approaches[k]
    cadRet,      \* load_approaches: "pending", "returned" or the exception raised
    csvResults,  \* write_to_csv: the close approaches taken from `results` so far
    csvFile,     \* write_to_csv: the lines of the output file, header first; None before
    csvRet,      \* write_to_csv: "pending", "returned" or the exception raised
    jsonResults, \* write_to_json: the close approaches taken from `results` so far
    jsonList,    \* write_to_json: the list `json_list`
    jsonFile,    \* write_to_json: the dumped list, None while nothing is dumped
    jsonRet      \* write_to_json: "pending", "returned" or the exception raised

loadVars  == <<neoIn, neos, neoSrc, neoRet, cadIn, approaches, cadSrc, cadRet>>
writeVars == <<csvResults, csvFile, csvRet, jsonResults, jsonList, jsonFile, jsonRet>>
vars      == <<pc, loadVars, writeVars>>

\* The number of input rows read in one run, over both loaders.
MaxRows == 2
\* The number of close approaches a writer takes from its `results` stream.
MaxResults == 2

(***************************************************************************)
(* Python values                                                           *)
(***************************************************************************)
None     == [type |-> "NoneType"]
Str(s)   == [type |-> "str", s |-> s]
Float(h) == [type |-> "float", x |-> h]
NaN      == [type |-> "float", nan |-> TRUE]
Bool(b)  == [type |-> "bool", b |-> b]

IsNaN(v) == v.type = "float" /\ "nan" \in DOMAIN v

Raise(e)  == [exc |-> e]
Return(v) == [exc |-> "none", val |-> v]

\* bool(v): None, "", 0.0 and False are falsy; nan and every datetime are truthy.
Truthy(v) ==
    CASE v.type = "NoneType" -> FALSE
      [] v.type = "str"      -> v.s # ""
      [] v.type = "float"    -> IF "nan" \in DOMAIN v THEN TRUE ELSE v.x # 0
      [] v.type = "bool"     -> v.b
      [] OTHER               -> TRUE

\* `a or b`
PyOr(a, b) == IF Truthy(a) THEN a ELSE b

\* format(v, '') as an f-string does it for a str or None.
PyFormat(v) == IF v.type = "NoneType" THEN "None" ELSE v.s

\* info.get(key) / info.get(key, default) on the keyword dictionary `info`.
DictGet(info, key, default) == IF key \in DOMAIN info THEN info[key] ELSE default

\* {**d1, **d2}
DictMerge(d1, d2) ==
    [k \in (DOMAIN d1) \cup (DOMAIN d2) |-> IF k \in DOMAIN d2 THEN d2[k] ELSE d1[k]]

\* The decimal literals of the input vocabulary and the float each denotes, in
\* hundredths.
FloatLiterals ==
    [s \in {"0", "16.84", "0.31", "5.58"} |->
        CASE s = "0" -> 0 [] s = "16.84" -> 1684 [] s = "0.31" -> 31 [] s = "5.58" -> 558]

\* float(v): TypeError on None, ValueError on a text that is no number.
PyFloat(v) ==
    IF v.type = "NoneType" THEN Raise("TypeError")
    ELSE IF v.s \in DOMAIN FloatLiterals THEN Return(Float(FloatLiterals[v.s]))
    ELSE Raise("ValueError")

\* list.insert(0, x) in the place of list.append(x)
ListInsertFirst(list, x) == <<x>> \o list

\* list.append
ListAppend(list, x) == Append(list, x)

(***************************************************************************)
(* helpers.py (not among the sources): the two conversions, from the       *)
(* formats the design states: `YYYY-MMM-DD hh:mm` in, `YYYY-MM-DD hh:mm`   *)
(* out.                                                                    *)
(***************************************************************************)
Datetime(y, mo, d, h, mi) ==
    [type |-> "datetime", y |-> y, mo |-> mo, d |-> d, h |-> h, mi |-> mi]

\* The calendar texts of the input vocabulary that match `%Y-%b-%d %H:%M`, and
\* the datetime each denotes.
CdLiterals ==
    [s \in {"1900-Jan-01 00:11", "2025-Jan-01 06:00"} |->
        IF s = "1900-Jan-01 00:11" THEN Datetime(1900, 1, 1, 0, 11)
                                   ELSE Datetime(2025, 1, 1, 6, 0)]

\* cd_to_datetime(calendar_date): strptime raises ValueError on any other text.
CdToDatetime(cd) ==
    IF cd.type # "str" THEN Raise("TypeError")
    ELSE IF cd.s \in DOMAIN CdLiterals THEN Return(CdLiterals[cd.s])
    ELSE Raise("ValueError")

Digit(n) == <<"0", "1", "2", "3", "4", "5", "6", "7", "8", "9">>[n + 1]
Pad2(n)  == Digit((n \div 10) % 10) \o Digit(n % 10)
Pad4(n)  == Pad2(n \div 100) \o Pad2(n % 100)

\* datetime_to_str(dt): strftime("%Y-%m-%d %H:%M"); AttributeError on None or a str.
DatetimeToStr(dt) ==
    IF dt.type # "datetime" THEN Raise("AttributeError")
    ELSE Return(Str(Pad4(dt.y) \o "-" \o Pad2(dt.mo) \o "-" \o Pad2(dt.d)
                    \o " " \o Pad2(dt.h) \o ":" \o Pad2(dt.mi)))

(***************************************************************************)
(* models.py: NearEarthObject                                              *)
(***************************************************************************)
\* NearEarthObject.__init__(**info)
NearEarthObjectInit(info) ==
    LET diameter == DictGet(info, "diameter", None)
    IN  Return([designation |-> DictGet(info, "designation", None),
                name        |-> DictGet(info, "name", None),
                diameter    |-> IF ~Truthy(diameter) THEN NaN ELSE diameter,
                hazardous   |-> DictGet(info, "hazardous", None),
                approaches  |-> <<>>])

\* NearEarthObject.fullname
NearEarthObjectFullname(neo) ==
    IF Truthy(neo.name) THEN PyFormat(neo.designation) \o " " \o PyFormat(neo.name)
    ELSE PyFormat(neo.designation)

\* NearEarthObject.format()
NearEarthObjectFormat(neo) ==
    [designation           |-> neo.designation,
     name                  |-> neo.name,
     diameter_km           |-> neo.diameter,
     potentially_hazardous |-> neo.hazardous]

\* neo.<method>(): the class body defines `format` as its only dictionary-valued
\* method; a name the class does not define raises AttributeError.
NearEarthObjectCall(neo, method) ==
    CASE method = "format" -> Return(NearEarthObjectFormat(neo))
      [] OTHER             -> Raise("AttributeError")

(***************************************************************************)
(* models.py: CloseApproach                                                *)
(***************************************************************************)
\* CloseApproach.__init__ with self.neo taken from the 'designation' keyword
CloseApproachInitNeoFromDesignation(info) ==
    LET time   == DictGet(info, "time", None)
        parsed == IF Truthy(time) THEN CdToDatetime(time) ELSE Return(time)
    IN  IF parsed.exc # "none" THEN Raise(parsed.exc)
        ELSE Return([_designation |-> DictGet(info, "designation", None),
                     time         |-> parsed.val,
                     distance     |-> DictGet(info, "distance", NaN),
                     velocity     |-> DictGet(info, "velocity", NaN),
                     neo          |-> DictGet(info, "designation", None)])

\* CloseApproach.__init__(**info)
CloseApproachInit(info) ==
    LET time   == DictGet(info, "time", None)
        parsed == IF Truthy(time) THEN CdToDatetime(time) ELSE Return(time)
    IN  IF parsed.exc # "none" THEN Raise(parsed.exc)
        ELSE Return([_designation |-> DictGet(info, "designation", None),
                     time         |-> parsed.val,
                     distance     |-> DictGet(info, "distance", NaN),
                     velocity     |-> DictGet(info, "velocity", NaN),
                     neo          |-> DictGet(info, "neo", None)])

\* CloseApproach.designation
CloseApproachDesignation(approach) == approach._designation

\* CloseApproach.format()
CloseApproachFormat(approach) ==
    LET text == DatetimeToStr(approach.time)
    IN  IF text.exc # "none" THEN Raise(text.exc)
        ELSE Return([datetime_utc  |-> text.val,
                     distance_au   |-> approach.distance,
                     velocity_km_s |-> approach.velocity])

\* result.<method>(): as for NearEarthObjectCall.
CloseApproachCall(approach, method) ==
    CASE method = "format" -> CloseApproachFormat(approach)
      [] OTHER             -> Raise("AttributeError")

(***************************************************************************)
(* extract.py: load_neos                                                   *)
(***************************************************************************)
\* The rows csv.DictReader can yield: every cell is a str, and a cell missing
\* from a short row is None.
NeoRows ==
    [pdes     : {None, Str("433")},
     name     : {Str(""), Str("Eros")},
     diameter : {Str(""), Str("0"), Str("16.84"), Str("abc")},
     pha      : {Str(""), Str("N"), Str("Y")}]

\* _name = line['name'], without the `or None`
NeoNameAsRead(line) == line.name

\* _name = line['name'] or None
NeoName(line) == PyOr(line.name, None)

\* _diameter = float(line['diameter']) if line['diameter'] else None
NeoDiameter(line) ==
    IF Truthy(line.diameter) THEN PyFloat(line.diameter) ELSE Return(None)

\* _pha = False if line['pha'] == 'N' else True
NeoPhaOnlyN(line) == IF line.pha = Str("N") THEN Bool(FALSE) ELSE Bool(TRUE)

\* _pha = False if line['pha'] in ['', 'N'] else True
NeoPha(line) == IF line.pha \in {Str(""), Str("N")} THEN Bool(FALSE) ELSE Bool(TRUE)

\* NearEarthObject(designation=line['pdes'], name=_name, diameter=_diameter,
\*                 hazardous=_pha)
NeoFromLine(line, diameter) ==
    NearEarthObjectInit([designation |-> line.pdes,
                         name        |-> NeoName(line),
                         diameter    |-> diameter,
                         hazardous   |-> NeoPha(line)])

RowsRead == Len(neoIn) + Len(cadIn)

\* load_neos(neo_csv_path) is called: the file is opened, neos = []
LoadNeosCall ==
    /\ pc = "main"
    /\ pc' = "load_neos"
    /\ neoIn' = <<>>
    /\ neos' = <<>>
    /\ neoSrc' = <<>>
    /\ neoRet' = "pending"
    /\ UNCHANGED <<cadIn, approaches, cadSrc, cadRet, writeVars>>

\* One iteration of `for line in reader`. The float() of the diameter is
\* evaluated before the try statement is entered, so what it raises leaves
\* load_neos; what the constructor raises is caught and the row is skipped.
LoadNeosLine(line) ==
    /\ pc = "load_neos"
    /\ RowsRead < MaxRows
    /\ neoIn' = Append(neoIn, line)
    /\ LET diameter == NeoDiameter(line)
       IN  IF diameter.exc # "none"
           THEN /\ pc' = "main"
                /\ neoRet' = diameter.exc
                /\ UNCHANGED <<neos, neoSrc>>
           ELSE LET made == NeoFromLine(line, diameter.val)
                IN  /\ UNCHANGED <<pc, neoRet>>
                    /\ IF made.exc # "none"
                       THEN UNCHANGED <<neos, neoSrc>>
                       ELSE /\ neos' = ListAppend(neos, made.val)
                            /\ neoSrc' = ListAppend(neoSrc, Len(neoIn) + 1)
    /\ UNCHANGED <<cadIn, approaches, cadSrc, cadRet, writeVars>>

\* The reader is exhausted: return neos
LoadNeosReturn ==
    /\ pc = "load_neos"
    /\ pc' = "main"
    /\ neoRet' = "returned"
    /\ UNCHANGED <<neoIn, neos, neoSrc, cadIn, approaches, cadSrc, cadRet, writeVars>>

(***************************************************************************)
(* extract.py: load_approaches                                             *)
(***************************************************************************)
\* The rows dict(zip(fields, data)) can hold: JSON strings, and null as None.
CadRows ==
    [des   : {None, Str("433")},
     cd    : {None, Str(""), Str("1900-Jan-01 00:11"), Str("1900-01-01")},
     dist  : {Str("0.31"), Str("abc")},
     v_rel : {Str("5.58"), Str("abc")}]

\* CloseApproach(designation=line['des'], time=line['cd'],
\*               distance=float(line['dist']), velocity=float(line['v_rel']))
\* The arguments are evaluated left to right, inside the try statement.
ApproachFromLine(line) ==
    LET distance == PyFloat(line.dist)
        velocity == PyFloat(line.v_rel)
    IN  IF distance.exc # "none" THEN Raise(distance.exc)
        ELSE IF velocity.exc # "none" THEN Raise(velocity.exc)
        ELSE CloseApproachInit([designation |-> line.des,
                                time        |-> line.cd,
                                distance    |-> distance.val,
                                velocity    |-> velocity.val])

\* load_approaches(cad_json_path) is called: the file is read, approaches = []
LoadApproachesCall ==
    /\ pc = "main"
    /\ pc' = "load_approaches"
    /\ cadIn' = <<>>
    /\ approaches' = <<>>
    /\ cadSrc' = <<>>
    /\ cadRet' = "pending"
    /\ UNCHANGED <<neoIn, neos, neoSrc, neoRet, writeVars>>

\* One iteration of `for line in reader`: whatever the construction raises is
\* caught and printed, and the row is skipped.
LoadApproachesLine(line) ==
    /\ pc = "load_approaches"
    /\ RowsRead < MaxRows
    /\ cadIn' = Append(cadIn, line)
    /\ LET made == ApproachFromLine(line)
       IN  IF made.exc # "none"
           THEN UNCHANGED <<approaches, cadSrc>>
           ELSE /\ approaches' = ListAppend(approaches, made.val)
                /\ cadSrc' = ListAppend(cadSrc, Len(cadIn) + 1)
    /\ UNCHANGED <<pc, cadRet, neoIn, neos, neoSrc, neoRet, writeVars>>

\* The list is exhausted: return approaches
LoadApproachesReturn ==
    /\ pc = "load_approaches"
    /\ pc' = "main"
    /\ cadRet' = "returned"
    /\ UNCHANGED <<cadIn, approaches, cadSrc, neoIn, neos, neoSrc, neoRet, writeVars>>

(***************************************************************************)
(* The loaders, called in any order from the main module                   *)
(***************************************************************************)
Init ==
    /\ pc = "main"
    /\ neoIn = <<>> /\ neos = <<>> /\ neoSrc = <<>> /\ neoRet = "pending"
    /\ cadIn = <<>> /\ approaches = <<>> /\ cadSrc = <<>> /\ cadRet = "pending"
    /\ csvResults = <<>> /\ csvFile = None /\ csvRet = "pending"
    /\ jsonResults = <<>> /\ jsonList = <<>> /\ jsonFile = None /\ jsonRet = "pending"

Next ==
    \/ LoadNeosCall
    \/ \E line \in NeoRows : LoadNeosLine(line)
    \/ LoadNeosReturn
    \/ LoadApproachesCall
    \/ \E line \in CadRows : LoadApproachesLine(line)
    \/ LoadApproachesReturn

Spec == Init /\ [][Next]_vars

(***************************************************************************)
(* write.py                                                                *)
(***************************************************************************)
\* The close approaches a query can yield: constructed as the loaders do, then
\* linked by the database (approach.neo = neo). The writers do not follow the
\* NEO's back references, which are left out.
ResultNeos ==
    {NearEarthObjectInit([designation |-> Str(des), name |-> name,
                          diameter |-> diameter, hazardous |-> Bool(pha)]).val :
        des \in {"433", "719"}, name \in {None, Str("Eros")},
        diameter \in {None, Float(1684)}, pha \in BOOLEAN}

Results ==
    {[CloseApproachInit([designation |-> neo.designation, time |-> Str(cd),
                         distance |-> Float(dist), velocity |-> Float(558)]).val
        EXCEPT !.neo = neo] :
        neo \in ResultNeos, cd \in DOMAIN CdLiterals, dist \in {31, 558}}

fieldnames ==
    {"datetime_utc", "distance_au", "velocity_km_s",
     "designation", "name", "diameter_km", "potentially_hazardous"}

\* content = {**result.serialize(), **result.neo.serialize()}
\* content['name'] = content['name'] if content['name'] is not None else ''
\* content['potentially_hazardous'] = True if content['potentially_hazardous'] else False
\* (the same three lines in write_to_csv and in write_to_json)
Content(result) ==
    LET own == CloseApproachCall(result, "serialize")
        neo == IF result.neo = None THEN Raise("AttributeError")
               ELSE NearEarthObjectCall(result.neo, "serialize")
    IN  IF own.exc # "none" THEN Raise(own.exc)
        ELSE IF neo.exc # "none" THEN Raise(neo.exc)
        ELSE LET content == DictMerge(own.val, neo.val)
             IN  IF {"name", "potentially_hazardous"} \subseteq DOMAIN content
                 THEN Return([content EXCEPT
                         !["name"] = IF @ # None THEN @ ELSE Str(""),
                         !["potentially_hazardous"] = Bool(Truthy(@))])
                 ELSE Raise("KeyError")

\* csv.DictWriter.writerow(content): a key outside fieldnames raises
\* ValueError, a missing one is written as ''.
DictWriterRow(content) ==
    IF ~(DOMAIN content \subseteq fieldnames) THEN Raise("ValueError")
    ELSE Return([f \in fieldnames |-> IF f \in DOMAIN content THEN content[f] ELSE Str("")])

\* The dictionary write_to_json appends to json_list.
JsonRecord(content) ==
    IF ~(fieldnames \subseteq DOMAIN content) THEN Raise("KeyError")
    ELSE Return([datetime_utc  |-> content["datetime_utc"],
                 distance_au   |-> content["distance_au"],
                 velocity_km_s |-> content["velocity_km_s"],
                 neo |-> [designation           |-> content["designation"],
                          name                  |-> content["name"],
                          diameter_km           |-> content["diameter_km"],
                          potentially_hazardous |-> content["potentially_hazardous"]]])

\* write_to_csv(results, filename) is called: the file is opened and the header
\* written.
WriteCsvCall ==
    /\ pc = "main"
    /\ pc' = "write_to_csv"
    /\ csvResults' = <<>>
    /\ csvFile' = <<[f \in fieldnames |-> Str(f)]>>
    /\ csvRet' = "pending"
    /\ UNCHANGED <<loadVars, jsonResults, jsonList, jsonFile, jsonRet>>

\* One iteration of `for result in results` in write_to_csv. Nothing catches
\* what the body raises; the with statement closes the file as it is.
WriteCsvRow(result) ==
    /\ pc = "write_to_csv"
    /\ Len(csvResults) < MaxResults
    /\ csvResults' = Append(csvResults, result)
    /\ LET content == Content(result)
           row     == IF content.exc # "none" THEN Raise(content.exc)
                      ELSE DictWriterRow(content.val)
       IN  IF row.exc # "none"
           THEN /\ pc' = "main"
                /\ csvRet' = row.exc
                /\ UNCHANGED csvFile
           ELSE /\ csvFile' = ListAppend(csvFile, row.val)
                /\ UNCHANGED <<pc, csvRet>>
    /\ UNCHANGED <<loadVars, jsonResults, jsonList, jsonFile, jsonRet>>

\* `results` is exhausted: the file is closed and write_to_csv returns.
WriteCsvReturn ==
    /\ pc = "write_to_csv"
    /\ pc' = "main"
    /\ csvRet' = "returned"
    /\ UNCHANGED <<loadVars, csvResults, csvFile, jsonResults, jsonList, jsonFile, jsonRet>>

\* write_to_json(results, filename) is called: json_list = []
WriteJsonCall ==
    /\ pc = "main"
    /\ pc' = "write_to_json"
    /\ jsonResults' = <<>>
    /\ jsonList' = <<>>
    /\ jsonFile' = None
    /\ jsonRet' = "pending"
    /\ UNCHANGED <<loadVars, csvResults, csvFile, csvRet>>

\* One iteration of `for result in results` in write_to_json.
WriteJsonRow(result) ==
    /\ pc = "write_to_json"
    /\ Len(jsonResults) < MaxResults
    /\ jsonResults' = Append(jsonResults, result)
    /\ LET content == Content(result)
           record  == IF content.exc # "none" THEN Raise(content.exc)
                      ELSE JsonRecord(content.val)
       IN  IF record.exc # "none"
           THEN /\ pc' = "main"
                /\ jsonRet' = record.exc
                /\ UNCHANGED jsonList
           ELSE /\ jsonList' = ListAppend(jsonList, record.val)
                /\ UNCHANGED <<pc, jsonRet>>
    /\ UNCHANGED <<loadVars, csvResults, csvFile, csvRet, jsonFile>>

\* `results` is exhausted: json.dump(json_list, output_file) and return.
WriteJsonReturn ==
    /\ pc = "write_to_json"
    /\ pc' = "main"
    /\ jsonFile' = jsonList
    /\ jsonRet' = "returned"
    /\ UNCHANGED <<loadVars, csvResults, csvFile, csvRet, jsonResults, jsonList>>

NextWrite ==
    \/ WriteCsvCall
    \/ \E result \in Results : WriteCsvRow(result)
    \/ WriteCsvReturn
    \/ WriteJsonCall
    \/ \E result \in Results : WriteJsonRow(result)
    \/ WriteJsonReturn

SpecWrite == Init /\ [][NextWrite]_vars

(***************************************************************************)
(* The claims                                                              *)
(***************************************************************************)
Range(s) == {s[k] : k \in DOMAIN s}
Increasing(s) == \A i, j \in DOMAIN s : i < j => s[i] < s[j]
Finished(ret) == ret \in {"pending", "returned"}

\* The row an object was loaded from.
NeoLine(k) == neoIn[neoSrc[k]]
CadLine(k) == cadIn[cadSrc[k]]

\* C1: a row whose diameter (NEO) or distance/velocity (close approach) is no
\* number fails alone: neither loader ever ends by raising, and a loader that
\* has returned has returned an object for every row whose numeric fields are
\* well formed.
C1_MalformedRowNeverAbortsLoad ==
    /\ Finished(neoRet)
    /\ Finished(cadRet)
    /\ neoRet = "returned" =>
          \A i \in DOMAIN neoIn :
              NeoDiameter(neoIn[i]).exc = "none" => i \in Range(neoSrc)
    /\ cadRet = "returned" =>
          \A i \in DOMAIN cadIn :
              ApproachFromLine(cadIn[i]).exc = "none" => i \in Range(cadSrc)

\* C2: no NearEarthObject with an absent designation exists: load_neos never
\* holds or returns one.
C2_NoNeoWithoutDesignation ==
    \A k \in DOMAIN neos : neos[k].designation # None

\* C3: no two NearEarthObjects returned by load_neos have the same
\* designation. Stated of the objects that have one: two objects without a
\* designation are C2's case.
C3_DesignationUnique ==
    neoRet = "returned" =>
        \A i, j \in DOMAIN neos :
            i # j /\ neos[i].designation # None =>
                neos[i].designation # neos[j].designation

\* C4: every CloseApproach load_approaches holds or returns has a present
\* designation and a parsed time.
C4_ApproachHasDesignationAndTime ==
    \A k \in DOMAIN approaches :
        /\ CloseApproachDesignation(approaches[k]) # None
        /\ approaches[k].time.type = "datetime"

\* The output record the design gives for one linked close approach.
ExpectedRecord(result) ==
    [datetime_utc          |-> DatetimeToStr(result.time).val,
     distance_au           |-> result.distance,
     velocity_km_s         |-> result.velocity,
     designation           |-> result.neo.designation,
     name                  |-> IF result.neo.name = None THEN Str("") ELSE result.neo.name,
     diameter_km           |-> result.neo.diameter,
     potentially_hazardous |-> result.neo.hazardous]

\* C5: write_to_csv and write_to_json complete without error on every
\* sequence of linked close approaches, and emit one record per approach, in
\* order, with the seven fields of the approach and its NEO.
C5_WritersEmitOneRecordPerApproach ==
    /\ Finished(csvRet)
    /\ Finished(jsonRet)
    /\ csvRet = "returned" =>
          /\ Len(csvFile) = Len(csvResults) + 1
          /\ \A k \in DOMAIN csvResults : csvFile[k + 1] = ExpectedRecord(csvResults[k])
    /\ jsonRet = "returned" =>
          /\ Len(jsonFile) = Len(jsonResults)
          /\ \A k \in DOMAIN jsonResults :
                LET want == ExpectedRecord(jsonResults[k])
                    got  == jsonFile[k]
                IN  /\ got.datetime_utc = want.datetime_utc
                    /\ got.distance_au = want.distance_au
                    /\ got.velocity_km_s = want.velocity_km_s
                    /\ got.neo = [f \in DOMAIN got.neo |-> want[f]]

\* C6: a loaded NEO's hazardous flag is a boolean, False exactly when the
\* row's marker is empty or "N".
C6_HazardousFlag ==
    \A k \in DOMAIN neos :
        /\ neos[k].hazardous \in {Bool(TRUE), Bool(FALSE)}
        /\ neos[k].hazardous = Bool(FALSE) <=> NeoLine(k).pha \in {Str(""), Str("N")}

C6_Witness ==
    \E k, j \in DOMAIN neos :
        /\ NeoLine(k).pha = Str("") /\ neos[k].hazardous = Bool(FALSE)
        /\ NeoLine(j).pha = Str("Y") /\ neos[j].hazardous = Bool(TRUE)

\* C7: an empty name loads as None and any other name unchanged; fullname is
\* the designation alone without a name, and "<designation> <name>" with one.
C7_NameAndFullname ==
    \A k \in DOMAIN neos :
        IF NeoLine(k).name = Str("")
        THEN /\ neos[k].name = None
             /\ NearEarthObjectFullname(neos[k]) = PyFormat(NeoLine(k).pdes)
        ELSE /\ neos[k].name = NeoLine(k).name
             /\ NearEarthObjectFullname(neos[k]) =
                    PyFormat(NeoLine(k).pdes) \o " " \o NeoLine(k).name.s

C7_Witness ==
    \E k, j \in DOMAIN neos :
        /\ NeoLine(k).name = Str("") /\ NearEarthObjectFullname(neos[k]) = "433"
        /\ NeoLine(j).name = Str("Eros") /\ NearEarthObjectFullname(neos[j]) = "433 Eros"

\* C8: after any calls of the loaders, every loaded NearEarthObject has no
\* approaches and every loaded CloseApproach has no neo, and the designation
\* of its row.
C8_LoadedObjectsAreUnlinked ==
    /\ \A k \in DOMAIN neos : neos[k].approaches = <<>>
    /\ \A k \in DOMAIN approaches :
          /\ approaches[k].neo = None
          /\ CloseApproachDesignation(approaches[k]) = CadLine(k).des

C8_Witness ==
    /\ pc = "main" /\ neoRet = "returned" /\ cadRet = "returned"
    /\ Len(neos) = 1 /\ Len(approaches) = 1
    /\ CloseApproachDesignation(approaches[1]) = Str("433")

\* C9: a loaded NEO's diameter is not-a-number exactly when the row's diameter
\* is empty, and every number supplied, zero included, is kept.
C9_DiameterKept ==
    \A k \in DOMAIN neos :
        /\ IsNaN(neos[k].diameter) <=> NeoLine(k).diameter = Str("")
        /\ NeoLine(k).diameter.s \in DOMAIN FloatLiterals =>
              neos[k].diameter = Float(FloatLiterals[NeoLine(k).diameter.s])

\* C10: what a loader returns holds one object per row whose construction
\* succeeded, in the order of the rows: none twice, none left out.
C10_ReturnedInInputOrder ==
    /\ neoRet = "returned" =>
          /\ Len(neos) = Len(neoSrc)
          /\ Increasing(neoSrc)
          /\ Range(neoSrc) =
                {i \in DOMAIN neoIn :
                    NeoFromLine(neoIn[i], NeoDiameter(neoIn[i]).val).exc = "none"}
          /\ \A k \in DOMAIN neos :
                neos[k] = NeoFromLine(NeoLine(k), NeoDiameter(NeoLine(k)).val).val
    /\ cadRet = "returned" =>
          /\ Len(approaches) = Len(cadSrc)
          /\ Increasing(cadSrc)
          /\ Range(cadSrc) = {i \in DOMAIN cadIn : ApproachFromLine(cadIn[i]).exc = "none"}
          /\ \A k \in DOMAIN approaches :
                approaches[k] = ApproachFromLine(CadLine(k)).val

C10_Witness ==
    \/ /\ cadRet = "returned" /\ Len(cadIn) = 2 /\ cadSrc = <<2>>
       /\ approaches = <<ApproachFromLine(cadIn[2]).val>>
    \/ /\ neoRet = "returned" /\ Len(neoIn) = 2 /\ neoSrc = <<1, 2>>
       /\ neoIn[1] # neoIn[2] /\ neos[1] # neos[2]

====
